---- MODULE Spec2Model ----
(***************************************************************************)
(* Model of multi_head_attention_3d (src/multi_head_attention_3d.py): the   *)
(* construction of the layer and its forward pass, at the level of tensor   *)
(* metadata (shape and strides), element index arithmetic and the set of    *)
(* input batch elements each output batch element is computed from.         *)
(* Tensor values are not modelled; dropout_prob is held in percent.         *)
(***************************************************************************)
EXTENDS Integers, Sequences, FiniteSets

VARIABLES
    pc,        \* "new": __init__ not yet run; "constructed"; "failed": __init__ raised
    args,      \* the arguments handed to __init__
    inputs,    \* the shape [B, C, D, H, W] of the caller's input tensor
    self,      \* the attributes of the layer object
    err,       \* the exception __init__ raised, or NoError
    training,  \* torch.nn.Module.training, set by super().__init__()
    call       \* the record of the last forward call

vars == <<pc, args, inputs, self, err, training, call>>

-----------------------------------------------------------------------------
(* Bounds of the model.                                                    *)

MaxFilters == 4

MaxHeads == 2

MaxChannels == 2

MaxBatch == 2

MaxDim == 2

MaxMask == 2

-----------------------------------------------------------------------------
(* Argument domains.                                                       *)

LayerTypes == {"SAME", "DOWN", "UP"}

LayerTypeArgs == LayerTypes \cup {"SIDEWAYS"}

\* dropout_prob in percent: two values outside [0, 1], the two ends, the default 0.5
DropoutProbs == {-50, 0, 50, 100, 150}

\* channel counts of the input and the output: the smallest and the largest
ChannelCounts == {1, MaxChannels}

Args ==
    [in_channel : ChannelCounts, key_filters : 1..MaxFilters,
     value_filters : 1..MaxFilters, output_filters : ChannelCounts,
     num_heads : 1..MaxHeads, dropout_prob : DropoutProbs,
     layer_type : LayerTypeArgs]

InputShapes ==
    {<<b, c, d, h, w>> : b \in 1..MaxBatch, c \in ChannelCounts,
                         d \in 1..MaxDim, h \in 1..MaxDim, w \in 1..MaxDim}

\* the input of the smoke test: torch.rand(1, 2, 6, 6).unsqueeze(0)
SmokeInput == <<1, 1, 2, 6, 6>>

-----------------------------------------------------------------------------
(* Arithmetic helpers.                                                     *)

RECURSIVE Prod(_)
Prod(s) == IF s = <<>> THEN 1 ELSE Head(s) * Prod(Tail(s))

RECURSIVE Dot(_, _)
Dot(a, b) == IF a = <<>> THEN 0 ELSE Head(a) * Head(b) + Dot(Tail(a), Tail(b))

Min(a, b) == IF a < b THEN a ELSE b

-----------------------------------------------------------------------------
(* __init__                                                                *)

NoError == [type |-> "None", msg |-> "None"]

ValueError(m) == [type |-> "ValueError", msg |-> m]

NoModule == [kind |-> "None", in_channels |-> 0, out_channels |-> 0,
             kernel_size |-> 0, stride |-> 0, padding |-> 0, p |-> 0]

Conv3dModule(cin, cout, k, s, p) ==
    [kind |-> "Conv3d", in_channels |-> cin, out_channels |-> cout,
     kernel_size |-> k, stride |-> s, padding |-> p, p |-> 0]

ConvTranspose3dModule(cin, cout, k, s, p) ==
    [kind |-> "ConvTranspose3d", in_channels |-> cin, out_channels |-> cout,
     kernel_size |-> k, stride |-> s, padding |-> p, p |-> 0]

DropoutModule(prob) ==
    [kind |-> "Dropout", in_channels |-> 0, out_channels |-> 0,
     kernel_size |-> 0, stride |-> 0, padding |-> 0, p |-> prob]

\* nn.Dropout(p) raises ValueError unless 0 <= p <= 1
DropoutProbOk(prob) == prob >= 0 /\ prob <= 100

\* the object after super().__init__(): no attribute of the layer assigned yet;
\* scale holds the radicand of _scale (_scale = scale ** 0.5), 0 when unassigned
NewObject ==
    [num_heads |-> 0, layer_type |-> "None", QueryTransform |-> NoModule,
     KeyTransform |-> NoModule, ValueTransform |-> NoModule,
     attention_dropout |-> NoModule, outputConv |-> NoModule, scale |-> 0]

QueryModule(a) ==
    IF a.layer_type = "SAME" THEN Conv3dModule(a.in_channel, a.key_filters, 1, 1, 0)
    ELSE IF a.layer_type = "DOWN" THEN Conv3dModule(a.in_channel, a.key_filters, 3, 2, 1)
    ELSE IF a.layer_type = "UP"
         THEN ConvTranspose3dModule(a.in_channel, a.key_filters, 3, 2, 1)
    ELSE NoModule

\* Validate with a defect: the value depth is not checked
ValidateNoValueCheck(a) ==
    IF a.key_filters % a.num_heads # 0 THEN ValueError("Key depth")
    ELSE IF a.layer_type \notin LayerTypes THEN ValueError("Layer type")
    ELSE NoError

\* Validate with a defect: the layer type is checked first
ValidateTypeFirst(a) ==
    IF a.layer_type \notin LayerTypes THEN ValueError("Layer type")
    ELSE IF a.key_filters % a.num_heads # 0 THEN ValueError("Key depth")
    ELSE IF a.value_filters % a.num_heads # 0 THEN ValueError("Value depth")
    ELSE NoError

\* the three checks of __init__, in the order of the code: the error of the
\* first check that fails, NoError when all pass
Validate(a) ==
    IF a.key_filters % a.num_heads # 0 THEN ValueError("Key depth")
    ELSE IF a.value_filters % a.num_heads # 0 THEN ValueError("Value depth")
    ELSE IF a.layer_type \notin LayerTypes THEN ValueError("Layer type")
    ELSE NoError

\* the attributes assigned from line 38 up to the nn.Dropout call of line 54
BeforeDropout(a) ==
    [NewObject EXCEPT !.num_heads = a.num_heads,
                      !.layer_type = a.layer_type,
                      !.QueryTransform = QueryModule(a),
                      !.KeyTransform = Conv3dModule(a.in_channel, a.key_filters, 1, 1, 0),
                      !.ValueTransform = Conv3dModule(a.in_channel, a.value_filters, 1, 1, 0)]

\* __init__ as a whole: the exception raised (or NoError) and the attributes
\* the object holds when __init__ returns or raises
init(a) ==
    IF Validate(a) # NoError THEN [err |-> Validate(a), obj |-> NewObject]
    ELSE IF ~DropoutProbOk(a.dropout_prob)
         THEN [err |-> ValueError("dropout probability"), obj |-> BeforeDropout(a)]
    ELSE [err |-> NoError,
          obj |-> [BeforeDropout(a) EXCEPT
                     !.attention_dropout = DropoutModule(a.dropout_prob),
                     !.outputConv = Conv3dModule(a.value_filters, a.output_filters, 1, 1, 0),
                     !.scale = a.key_filters \div a.num_heads]]

-----------------------------------------------------------------------------
(* Tensors: shape and strides (in elements) over a storage.  Index tuples   *)
(* and dimension numbers are 0-based as in the source; sequence positions   *)
(* are 1-based.                                                            *)

\* the result of an operation that raised
Bad == [ok |-> FALSE, shape |-> <<>>, stride |-> <<>>]

RECURSIVE ContiguousStride(_)
ContiguousStride(shape) ==
    IF shape = <<>> THEN <<>>
    ELSE <<Prod(Tail(shape))>> \o ContiguousStride(Tail(shape))

\* a freshly allocated tensor of the given shape
Contiguous(shape) == [ok |-> TRUE, shape |-> shape, stride |-> ContiguousStride(shape)]

\* storage offset of the element at multi-index idx
Offset(t, idx) == Dot(idx, t.stride)

\* the multi-index, in a tensor of the given shape, of the n-th element in
\* row-major order
RECURSIVE Unravel(_, _)
Unravel(n, shape) ==
    IF shape = <<>> THEN <<>>
    ELSE <<n \div Prod(Tail(shape))>> \o Unravel(n % Prod(Tail(shape)), Tail(shape))

\* Tensor.permute(dims)
Permute(t, dims) ==
    IF ~t.ok THEN Bad
    ELSE [ok |-> TRUE,
          shape |-> [i \in 1..Len(dims) |-> t.shape[dims[i] + 1]],
          stride |-> [i \in 1..Len(dims) |-> t.stride[dims[i] + 1]]]

\* Tensor.transpose(0, 1) of a matrix
Transpose(t) == Permute(t, <<1, 0>>)

\* Tensor.view: the inner loop of the stride computation, which hands strides
\* to the view's dimensions from the last one until they cover the chunk
RECURSIVE ViewFill(_, _, _, _, _, _)
ViewFill(newshape, newstride, view_d, view_numel, tensor_numel, base) ==
    IF view_d >= 1 /\ (view_numel < tensor_numel \/ newshape[view_d] = 1)
    THEN ViewFill(newshape, [newstride EXCEPT ![view_d] = view_numel * base],
                  view_d - 1, view_numel * newshape[view_d], tensor_numel, base)
    ELSE [stride |-> newstride, view_d |-> view_d, view_numel |-> view_numel]

\* Tensor.view: the outer loop, over the tensor's dimensions from the last one,
\* which cuts them into chunks that are contiguous in the storage
RECURSIVE ViewChunks(_, _, _, _, _, _, _, _)
ViewChunks(oldshape, oldstride, newshape, newstride, tensor_d, view_d, base, numel) ==
    LET tensor_numel == numel * oldshape[tensor_d]
        chunkEnds == \/ tensor_d = 1
                     \/ /\ oldshape[tensor_d - 1] # 1
                        /\ oldstride[tensor_d - 1] # tensor_numel * base
        f == ViewFill(newshape, newstride, view_d, 1, tensor_numel, base)
    IN  IF ~chunkEnds
        THEN ViewChunks(oldshape, oldstride, newshape, newstride,
                        tensor_d - 1, view_d, base, tensor_numel)
        ELSE IF f.view_numel # tensor_numel THEN Bad
        ELSE IF tensor_d > 1
             THEN ViewChunks(oldshape, oldstride, newshape, f.stride,
                             tensor_d - 1, f.view_d, oldstride[tensor_d - 1], 1)
        ELSE IF f.view_d # 0 THEN Bad
        ELSE [ok |-> TRUE, shape |-> newshape, stride |-> f.stride]

\* Tensor.view(newshape): the same storage under another shape; raises when the
\* element counts differ or the strides do not allow it
View(t, newshape) ==
    IF ~t.ok THEN Bad
    ELSE IF Prod(newshape) # Prod(t.shape) THEN Bad
    ELSE ViewChunks(t.shape, t.stride, newshape, [i \in 1..Len(newshape) |-> 0],
                    Len(t.shape), Len(newshape), t.stride[Len(t.stride)], 1)

\* torch.flatten(t, 0, 4) of a 6-axis tensor: the 2-axis tensor whose element
\* (row, j) is the element of t at multi-index Unravel(row, first five axes), j
Flatten(t) ==
    IF ~t.ok THEN Bad
    ELSE Contiguous(<<Prod(SubSeq(t.shape, 1, 5)), t.shape[6]>>)

\* the storage offset, in the tensor that was flattened, of element (row, j)
\* of the flattened tensor
FlattenSource(t, row, j) ==
    Offset(t, Unravel(row, SubSeq(t.shape, 1, 5)) \o <<j>>)

\* torch.matmul of two matrices
Matmul(a, b) ==
    IF ~a.ok \/ ~b.ok THEN Bad
    ELSE IF a.shape[2] # b.shape[1] THEN Bad
    ELSE Contiguous(<<a.shape[1], b.shape[2]>>)

\* ConvOutSize with a defect: the quotient is rounded up
ConvOutSizeCeil(m, d) ==
    ((d + 2 * m.padding - m.kernel_size + m.stride - 1) \div m.stride) + 1

\* output size of nn.Conv3d along one spatial axis (dilation 1)
ConvOutSize(m, d) == ((d + 2 * m.padding - m.kernel_size) \div m.stride) + 1

\* nn.Conv3d.forward on a [B, C, D, H, W] tensor
Conv3dForward(m, x) ==
    IF ~x.ok THEN Bad
    ELSE IF x.shape[2] # m.in_channels THEN Bad
    ELSE IF \E i \in 3..5 : x.shape[i] + 2 * m.padding < m.kernel_size THEN Bad
    ELSE Contiguous(<<x.shape[1], m.out_channels, ConvOutSize(m, x.shape[3]),
                      ConvOutSize(m, x.shape[4]), ConvOutSize(m, x.shape[5])>>)

\* smallest output size of nn.ConvTranspose3d along one spatial axis
ConvTransposeMinSize(m, d) == (d - 1) * m.stride - 2 * m.padding + m.kernel_size

\* nn.ConvTranspose3d.forward(x, output_size): the requested size must lie
\* between the smallest size and the smallest size + stride - 1
ConvTranspose3dForward(m, x, output_size) ==
    IF ~x.ok THEN Bad
    ELSE IF x.shape[2] # m.in_channels THEN Bad
    ELSE IF \E i \in 1..3 :
              \/ output_size[i] < ConvTransposeMinSize(m, x.shape[i + 2])
              \/ output_size[i] > ConvTransposeMinSize(m, x.shape[i + 2]) + m.stride - 1
         THEN Bad
    ELSE Contiguous(<<x.shape[1], m.out_channels>> \o output_size)

-----------------------------------------------------------------------------
(* forward                                                                 *)

\* split_heads with a defect: the channel count is not divided by the head count
split_headsNoDivide(x, num_heads) ==
    IF ~x.ok THEN Bad
    ELSE View(x, <<x.shape[1], x.shape[2], x.shape[3], x.shape[4], num_heads,
                   x.shape[5]>>)

\* split_heads(x, num_heads): int(channel_num / num_heads) is the floor for the
\* positive counts of the model
split_heads(x, num_heads) ==
    IF ~x.ok THEN Bad
    ELSE View(x, <<x.shape[1], x.shape[2], x.shape[3], x.shape[4], num_heads,
                   x.shape[5] \div num_heads>>)

\* QueryForward with a defect: the transposed convolution is called without
\* output_size and returns its smallest output size
QueryForwardNoOutputSize(s, x) ==
    IF s.layer_type = "SAME" \/ s.layer_type = "DOWN"
    THEN Conv3dForward(s.QueryTransform, x)
    ELSE IF s.layer_type = "UP"
         THEN ConvTranspose3dForward(s.QueryTransform, x,
                  <<ConvTransposeMinSize(s.QueryTransform, x.shape[3]),
                    ConvTransposeMinSize(s.QueryTransform, x.shape[4]),
                    ConvTransposeMinSize(s.QueryTransform, x.shape[5])>>)
    ELSE Bad

\* lines 66-69: the query projection of the layer type
QueryForward(s, x) ==
    IF s.layer_type = "SAME" \/ s.layer_type = "DOWN"
    THEN Conv3dForward(s.QueryTransform, x)
    ELSE IF s.layer_type = "UP"
         THEN ConvTranspose3dForward(s.QueryTransform, x,
                  <<x.shape[3] * 2, x.shape[4] * 2, x.shape[5] * 2>>)
    ELSE Bad

\* KeyValueInput with a defect: keys and values are projected from an input
\* resized to the resolution of the query
KeyValueInputResized(s, x) ==
    IF ~QueryForward(s, x).ok THEN x
    ELSE Contiguous(<<x.shape[1], x.shape[2]>> \o SubSeq(QueryForward(s, x).shape, 3, 5))

\* the tensor the key and value projections are applied to (lines 72-73): the
\* input itself, whatever the layer type
KeyValueInput(s, x) == x

\* lines 66-74: the three projections of the input x, channel axis moved last
Projections(s, x) ==
    [q |-> Permute(QueryForward(s, x), <<0, 2, 3, 4, 1>>),
     k |-> Permute(Conv3dForward(s.KeyTransform, KeyValueInput(s, x)), <<0, 2, 3, 4, 1>>),
     v |-> Permute(Conv3dForward(s.ValueTransform, KeyValueInput(s, x)),
                   <<0, 2, 3, 4, 1>>)]

\* lines 76-81: the head split of the three projections
SplitAll(s, p) ==
    [q1 |-> p.q, k1 |-> p.k, v1 |-> p.v,
     qs |-> split_heads(p.q, s.num_heads),
     ks |-> split_heads(p.k, s.num_heads),
     vs |-> split_heads(p.v, s.num_heads)]

\* the axis of the softmax of line 93
SoftmaxDim == 1

\* lines 84-93: the flattened matrices and the attention matrix A
AttentionMatrix(h) ==
    [q1 |-> h.q1, k1 |-> h.k1, v1 |-> h.v1, qs |-> h.qs, ks |-> h.ks, vs |-> h.vs,
     v |-> Flatten(h.vs),
     A |-> Matmul(Flatten(h.qs), Transpose(Flatten(h.ks)))]

\* lines 66-93: the tensors of forward up to the softmax
Attention(s, shape) == AttentionMatrix(SplitAll(s, Projections(s, Contiguous(shape))))

\* torch.softmax(A, dim): the number of entries normalised together, which is
\* the length of axis dim
SoftmaxLen(A, dim) == IF A.ok THEN A.shape[dim + 1] ELSE 0

\* a dropout mask: the dropped entries of A, by row-major position; all says
\* that every entry is dropped
NoDrop == [all |-> FALSE, idx |-> {}]

\* DropoutActive with a defect: dropout is applied whatever the mode of the layer
DropoutActiveAlways(m, train) == m.p > 0

\* whether the dropout module zeroes anything: nn.Dropout is the identity in
\* evaluation mode and with p = 0
DropoutActive(m, train) == train /\ m.p > 0

\* the masks nn.Dropout can draw for a tensor of n entries: with 0 < p < 1 any
\* set of entries (here: any set of the first MaxMask entries), with p = 1 all
DropoutMasks(m, train, n) ==
    IF ~DropoutActive(m, train) \/ n = 0 THEN {NoDrop}
    ELSE IF m.p = 100 THEN {[all |-> TRUE, idx |-> {}]}
    ELSE {[all |-> FALSE, idx |-> S] : S \in SUBSET (0..(Min(n, MaxMask) - 1))}

\* OutputView with a defect: O is viewed with the channel axis before the spatial
\* axes
OutputViewChannelFirst(s, att, O1) ==
    IF ~O1.ok THEN Bad
    ELSE Permute(View(O1, <<att.q1.shape[1], att.v.shape[2] * s.num_heads,
                            att.q1.shape[2], att.q1.shape[3], att.q1.shape[4]>>),
                 <<0, 2, 3, 4, 1>>)

\* line 99: O.view(Batch, Dq, Hq, Wq, v.shape[-1] * self.num_heads)
OutputView(s, att, O1) ==
    IF ~O1.ok THEN Bad
    ELSE View(O1, <<att.q1.shape[1], att.q1.shape[2], att.q1.shape[3],
                    att.q1.shape[4], att.v.shape[2] * s.num_heads>>)

\* lines 99-103: from the product O1 = A * v to the output
OutputOf(s, att, O1) ==
    [O1 |-> O1,
     O3 |-> Permute(OutputView(s, att, O1), <<0, 4, 1, 2, 3>>),
     O |-> Conv3dForward(s.outputConv,
                         Permute(OutputView(s, att, O1), <<0, 4, 1, 2, 3>>))]

\* lines 96-103: from the attention matrix to the output
Output(s, att) == OutputOf(s, att, Matmul(att.A, att.v))

\* the input batch element that row r of the flattening of the head-split
\* [B, ., ., ., N, c] tensor t comes from
BatchOfRow(t, r) == Unravel(r, SubSeq(t.shape, 1, 5))[1]

\* the input batch elements that row r of O is computed from: the query's own,
\* and those of every key column the softmax of the row runs over and every
\* value row the product A * v sums over
RowDeps(c, r) ==
    {BatchOfRow(c.qs, r)}
        \cup {BatchOfRow(c.ks, col) : col \in 0..(c.softmax - 1)}
        \cup {BatchOfRow(c.vs, col) : col \in 0..(c.A.shape[2] - 1)}

\* the batch element of the output that row r of O lands in, by the view of
\* line 99 and the permute of line 101
BatchOfOutputRow(c, r) ==
    CHOOSE b \in 0..(c.O3.shape[1] - 1) :
        \E pos \in 0..(Prod(SubSeq(c.O3.shape, 3, 5)) - 1) :
            Offset(c.O3, <<b, 0>> \o Unravel(pos, SubSeq(c.O3.shape, 3, 5)))
                = Offset(c.O1, <<r, 0>>)

\* the input batch elements output batch element b is computed from (the
\* output projection has kernel 1 and works within a batch element)
OutDeps(c, b) ==
    UNION {RowDeps(c, r) : r \in {x \in 0..(c.O1.shape[1] - 1) : BatchOfOutputRow(c, x) = b}}

\* the step of forward that raised, in the order the code runs them
FailedStep(att, out) ==
    IF ~att.q1.ok THEN "QueryTransform"
    ELSE IF ~att.k1.ok THEN "KeyTransform"
    ELSE IF ~att.v1.ok THEN "ValueTransform"
    ELSE IF ~att.ks.ok \/ ~att.vs.ok \/ ~att.qs.ok THEN "split_heads"
    ELSE IF ~att.A.ok THEN "matmul(q, k)"
    ELSE IF ~out.O1.ok THEN "matmul(A, v)"
    ELSE IF ~out.O3.ok THEN "view"
    ELSE IF ~out.O.ok THEN "outputConv"
    ELSE "None"

NoCall ==
    [status |-> "none", step |-> "None", inputs |-> <<>>, training |-> FALSE,
     mask |-> NoDrop, qs |-> Bad, ks |-> Bad, vs |-> Bad, A |-> Bad,
     softmax |-> 0, O1 |-> Bad, O3 |-> Bad, shape |-> <<>>]

\* Returned with a defect: forward stores a new scale constant in the layer
ReturnedRescales(s, train, shape, mask, att, out) ==
    [obj |-> [s EXCEPT !.scale = s.scale + 1],
     rec |-> [NoCall EXCEPT !.status = IF out.O.ok THEN "ok" ELSE "RuntimeError",
                            !.inputs = shape, !.training = train]]

\* what a call that got the tensors att and out returns or raises, and the
\* layer object after it: forward assigns no attribute
Returned(s, train, shape, mask, att, out) ==
    IF out.O.ok
    THEN [obj |-> s,
          rec |-> [status |-> "ok", step |-> "None", inputs |-> shape,
                   training |-> train,
                   mask |-> mask, qs |-> att.qs, ks |-> att.ks, vs |-> att.vs,
                   A |-> att.A, softmax |-> SoftmaxLen(att.A, SoftmaxDim),
                   O1 |-> out.O1, O3 |-> out.O3, shape |-> out.O.shape]]
    ELSE [obj |-> s,
          rec |-> [NoCall EXCEPT !.status = "RuntimeError",
                                 !.step = FailedStep(att, out),
                                 !.inputs = shape,
                                 !.training = train]]

\* lines 96-105, given the tensors up to the softmax
Finish(s, train, shape, mask, att) ==
    Returned(s, train, shape, mask, att, Output(s, att))

\* forward as a whole, with the mask the dropout module drew
forward(s, train, shape, mask) ==
    Finish(s, train, shape, mask, Attention(s, shape))

-----------------------------------------------------------------------------
(* The state machine: the caller holds an input tensor, constructs the      *)
(* layer, switches it between training and evaluation mode, and calls it.   *)

\* the state after line 124 of the smoke test: the caller holds an input of
\* shape x and is about to construct the layer with arguments a
InitWith(A, X) ==
    /\ pc = "new"
    /\ args \in A
    /\ inputs \in X
    /\ self = NewObject
    /\ err = NoError
    /\ training = TRUE
    /\ call = NoCall

\* arguments that pass construction
ValidArgs == {a \in Args : init(a).err = NoError}

\* every argument combination, on the input of the smoke test
InitCtor == InitWith(Args, {SmokeInput})

\* every layer without dropout, on every input shape
Init == InitWith({a \in ValidArgs : a.dropout_prob = 0}, InputShapes)

\* one channel per projection and one head, every layer type and dropout
\* probability, on every input shape
InitDropout ==
    InitWith({a \in ValidArgs : /\ a.key_filters = 1 /\ a.value_filters = 1
                                /\ a.output_filters = 1 /\ a.in_channel = 1},
             InputShapes)

\* one input, one output and one key channel per head, every head count and
\* value depth, without dropout, on every input shape
InitHeads ==
    InitWith({a \in ValidArgs : /\ a.key_filters = a.num_heads /\ a.dropout_prob = 0
                                /\ a.output_filters = 1 /\ a.in_channel = 1},
             InputShapes)

\* net = multi_head_attention_3d(...)
Construct ==
    /\ pc = "new"
    /\ self' = init(args).obj
    /\ err' = init(args).err
    /\ pc' = IF init(args).err = NoError THEN "constructed" ELSE "failed"
    /\ UNCHANGED <<args, inputs, training, call>>

\* net.train()
Train ==
    /\ pc = "constructed"
    /\ training' = TRUE
    /\ UNCHANGED <<pc, args, inputs, self, err, call>>

\* net.eval()
Eval ==
    /\ pc = "constructed"
    /\ training' = FALSE
    /\ UNCHANGED <<pc, args, inputs, self, err, call>>

\* res = net(inputs)
Forward ==
    /\ pc = "constructed"
    /\ \E mask \in DropoutMasks(self.attention_dropout, training,
                                Prod(Attention(self, inputs).A.shape)) :
          \E r \in {forward(self, training, inputs, mask)} :
              /\ call' = r.rec
              /\ self' = r.obj
    /\ UNCHANGED <<pc, args, inputs, err, training>>

Next == Construct \/ Train \/ Eval \/ Forward

Spec == Init /\ [][Next]_vars

SpecCtor == InitCtor /\ [][Next]_vars

SpecDropout == InitDropout /\ [][Next]_vars

SpecHeads == InitHeads /\ [][Next]_vars

-----------------------------------------------------------------------------
(* The claims.                                                             *)

FloorDiv(a, b) == a \div b

CeilDiv(a, b) == (a + b - 1) \div b

Constructed == pc # "new"

KeyDivisible == args.key_filters % args.num_heads = 0

ValueDivisible == args.value_filters % args.num_heads = 0

TypeKnown == args.layer_type \in {"SAME", "DOWN", "UP"}

ProbInRange == args.dropout_prob >= 0 /\ args.dropout_prob <= 100

\* C1, as stated: construction fails with a ValueError if and only if
\* key_filters or value_filters is not divisible by num_heads or layer_type is
\* not one of SAME, DOWN, UP; every other argument combination constructs.
C1_FailsIffThreeChecks ==
    Constructed =>
        /\ (err.type = "ValueError") <=> ~(KeyDivisible /\ ValueDivisible /\ TypeKnown)
        /\ (pc = "constructed") <=> (KeyDivisible /\ ValueDivisible /\ TypeKnown)

\* C1, amended: construction fails with a ValueError if and only if one of the
\* three checks fails or dropout_prob lies outside [0, 1] (nn.Dropout then
\* raises); every other argument combination constructs without error.
C1_FailsIffChecksOrDropout ==
    Constructed =>
        /\ (err.type = "ValueError")
              <=> ~(KeyDivisible /\ ValueDivisible /\ TypeKnown /\ ProbInRange)
        /\ (pc = "constructed")
              <=> (KeyDivisible /\ ValueDivisible /\ TypeKnown /\ ProbInRange)
        /\ (pc = "constructed") <=> (err = NoError)

\* C1 witness: the three checks pass and construction fails on the dropout
\* probability.
C1_Witness ==
    /\ pc = "failed"
    /\ KeyDivisible /\ ValueDivisible /\ TypeKnown
    /\ args.dropout_prob = 150
    /\ err.type = "ValueError"

AllUnassigned ==
    /\ self.QueryTransform = NoModule
    /\ self.KeyTransform = NoModule
    /\ self.ValueTransform = NoModule
    /\ self.outputConv = NoModule
    /\ self.attention_dropout = NoModule
    /\ self.scale = 0

\* C7: the checks run in the order key depth, value depth, layer type, the
\* error is that of the first check that fails, and when one of them fails no
\* projection, dropout module or scale constant has been created.
C7_ValidationOrder ==
    Constructed =>
        /\ ~KeyDivisible => err = ValueError("Key depth")
        /\ (KeyDivisible /\ ~ValueDivisible) => err = ValueError("Value depth")
        /\ (KeyDivisible /\ ValueDivisible /\ ~TypeKnown) => err = ValueError("Layer type")
        /\ ~(KeyDivisible /\ ValueDivisible /\ TypeKnown) => (pc = "failed" /\ AllUnassigned)

\* C7 witness: all three constraints are violated at once and the key depth
\* error is the one reported.
C7_Witness ==
    /\ pc = "failed"
    /\ ~KeyDivisible /\ ~ValueDivisible /\ ~TypeKnown
    /\ err = ValueError("Key depth")
    /\ AllUnassigned

Returned_ok == call.status = "ok"

\* the spatial size the claims give for one axis of the output
ClaimedSize(d) ==
    IF args.layer_type = "SAME" THEN d
    ELSE IF args.layer_type = "UP" THEN 2 * d
    ELSE FloorDiv(d + 2 * 1 - 3, 2) + 1

C3_DownSizeCeil ==
    (Returned_ok /\ args.layer_type = "DOWN") =>
        \A i \in 3..5 : call.shape[i] = CeilDiv(call.inputs[i] + 2 * 1 - 3, 2) + 1

\* C3, amended: in DOWN mode each output spatial size is
\* floor((d + 2*1 - 3)/2) + 1.
C3_DownSizeFloor ==
    (Returned_ok /\ args.layer_type = "DOWN") =>
        \A i \in 3..5 : call.shape[i] = FloorDiv(call.inputs[i] + 2 * 1 - 3, 2) + 1

\* C3 witness: a call in DOWN mode on an input with an even spatial size,
\* where the floor and the ceiling differ.
C3_Witness ==
    /\ Returned_ok
    /\ args.layer_type = "DOWN"
    /\ call.inputs[3] = 2
    /\ call.shape[3] = 1

\* dropout is inactive in a call made in mode train on a layer of probability p
Inactive(train, p) == ~train \/ p = 0

\* C4: with dropout inactive, output batch element b is computed from input
\* batch element b alone.
C4_BatchIndependence ==
    (Returned_ok /\ Inactive(call.training, self.attention_dropout.p)) =>
        \A b \in 0..(call.inputs[1] - 1) : OutDeps(call, b) \subseteq {b}

\* the value forward returned: a function of the input, the parameters and the
\* mask, so two calls on the same layer and input agree when their masks do
ResultOf(c) == <<c.status, c.shape, c.mask>>

C6_AttentionShape ==
    Returned_ok =>
        /\ call.A.shape =
              <<call.shape[1] * call.shape[3] * call.shape[4] * call.shape[5]
                    * args.num_heads,
                inputs[1] * inputs[3] * inputs[4] * inputs[5] * args.num_heads>>
        /\ call.softmax = inputs[1] * inputs[3] * inputs[4] * inputs[5] * args.num_heads

\* C6 witness: a call in DOWN mode with two heads whose query grid is smaller
\* than the key grid.
C6_Witness ==
    /\ Returned_ok
    /\ args.layer_type = "DOWN"
    /\ args.num_heads = 2
    /\ call.A.shape[1] < call.A.shape[2]

\* C8: the view and permute of O undo the head split and flatten: element
\* (row, j) of O, row = (((b*Dq + d)*Hq + h)*Wq + w)*heads + n, is channel
\* n*c + j of position (b, d, h, w) of the tensor given to the output
\* projection (c = value_filters / heads), every element appearing once; and
\* the head split and flatten of the value projection put channel n*c + j of
\* position (b, d, h, w) at row (((b*D + d)*H + h)*W + w)*heads + n, column j.
C8_UnflattenInverse ==
    Returned_ok =>
        LET N  == args.num_heads
            c  == args.value_filters \div args.num_heads
            B  == inputs[1]
            Dq == call.shape[3]
            Hq == call.shape[4]
            Wq == call.shape[5]
            D  == inputs[3]
            H  == inputs[4]
            W  == inputs[5]
            V0 == Contiguous(<<B, args.value_filters, D, H, W>>)
        IN  /\ call.O3.shape = <<B, args.value_filters, Dq, Hq, Wq>>
            /\ \A b \in 0..(B - 1), d \in 0..(Dq - 1), h \in 0..(Hq - 1),
                  w \in 0..(Wq - 1), n \in 0..(N - 1), j \in 0..(c - 1) :
                  Offset(call.O3, <<b, n * c + j, d, h, w>>)
                      = Offset(call.O1, <<(((b * Dq + d) * Hq + h) * Wq + w) * N + n, j>>)
            /\ {Offset(call.O3, <<b, ch, d, h, w>>) :
                    b \in 0..(B - 1), ch \in 0..(args.value_filters - 1),
                    d \in 0..(Dq - 1), h \in 0..(Hq - 1), w \in 0..(Wq - 1)}
                  = 0..(Prod(call.O1.shape) - 1)
            /\ \A b \in 0..(B - 1), d \in 0..(D - 1), h \in 0..(H - 1),
                  w \in 0..(W - 1), n \in 0..(N - 1), j \in 0..(c - 1) :
                  FlattenSource(call.vs, (((b * D + d) * H + h) * W + w) * N + n, j)
                      = Offset(V0, <<b, n * c + j, d, h, w>>)

\* C8 witness: a call in UP mode with two heads of two value channels each on
\* two batch elements of a 2 x 1 x 2 grid.
C8_Witness ==
    /\ Returned_ok
    /\ args.layer_type = "UP"
    /\ args.num_heads = 2 /\ args.value_filters = 4
    /\ inputs = <<2, 1, 2, 1, 2>>

\* C9: once the layer is constructed no step changes its attributes, whether a
\* forward call returns or raises: the layer type stays one of SAME, DOWN, UP
\* and the head count, scale constant and four projections stay as constructed.
C9_ForwardReadsOnly ==
    [][pc = "constructed" =>
          /\ self' = self
          /\ self'.layer_type \in {"SAME", "DOWN", "UP"}
          /\ self'.num_heads = args.num_heads
          /\ self'.scale = args.key_filters \div args.num_heads
          /\ pc' = "constructed"]_vars

\* C9 witness: a forward call has raised on a layer in UP mode, which still
\* holds its transposed convolution.
C9_Witness ==
    /\ call.status = "RuntimeError"
    /\ self.layer_type = "UP"
    /\ self.QueryTransform = ConvTranspose3dModule(args.in_channel, args.key_filters, 3, 2, 1)

\* C10: forward returns if and only if the input's channel count is
\* in_channel; then the inner dimensions of both products agree and the view
\* keeps the element count; otherwise the query projection raises and nothing
\* is returned.
C10_CompletesIffChannelsMatch ==
    call.status # "none" =>
        /\ (call.status = "ok") <=> (inputs[2] = args.in_channel)
        /\ call.status # "ok" =>
              /\ call.status = "RuntimeError"
              /\ call.step = "QueryTransform"
              /\ call.shape = <<>>
        /\ call.status = "ok" =>
              /\ call.qs.shape[6] = args.key_filters \div args.num_heads
              /\ call.ks.shape[6] = args.key_filters \div args.num_heads
              /\ call.vs.shape[6] = args.value_filters \div args.num_heads
              /\ call.A.shape[2] = Prod(SubSeq(call.vs.shape, 1, 5))
              /\ call.A.shape[2] =
                    inputs[1] * inputs[3] * inputs[4] * inputs[5] * args.num_heads
              /\ call.O1.shape = <<call.A.shape[1], args.value_filters \div args.num_heads>>
              /\ Prod(call.O1.shape) = Prod(call.O3.shape)
              /\ Prod(call.O3.shape) =
                    inputs[1] * call.shape[3] * call.shape[4] * call.shape[5]
                        * args.value_filters

\* C10 witness: a call returned in UP mode with two heads and a key depth
\* other than the value depth.
C10_Witness ==
    /\ Returned_ok
    /\ args.layer_type = "UP"
    /\ args.num_heads = 2
    /\ args.key_filters # args.value_filters

====
